---- MODULE Spec2Model ----
(***************************************************************************)
(* Model of exp_files: the text-processing strategies (word frequency and  *)
(* sentence search), the per-file worker AsyncProcessor._process_file, the *)
(* semaphore that bounds the workers, and AsyncProcessor.process_files /   *)
(* process_status with the final merge of the per-file results.            *)
(*                                                                         *)
(* Text is a sequence of one-character strings.  A Counter is a bag        *)
(* (a function from token to positive count).                              *)
(***************************************************************************)
EXTENDS Integers, Sequences, FiniteSets, Bags, TLC

(***************************************************************************)
(* Bounds of the model.                                                    *)
(***************************************************************************)
MaxTextLen == 4
MaxQueryLen == 1
MaxRuns == 2
MaxLimit == 2
ChunkSize == 2
MaxResults == 3
MaxCount == 2

(***************************************************************************)
(* Characters.                                                             *)
(***************************************************************************)
Alphabet == {"a", "A", " ", "."}
Terminators == {".", "!", "?"}
Whitespace == {" "}
WordChars == {"a", "b", "A", "B", "_"}

SeqsUpTo(S, n) == UNION {[1..k -> S] : k \in 0..n}
Range(s) == {s[i] : i \in DOMAIN s}

\* str.lower() on one character
LowerChar(c) == IF c = "A" THEN "a" ELSE IF c = "B" THEN "b" ELSE c
\* str.lower()
lower(s) == [i \in DOMAIN s |-> LowerChar(s[i])]

\* str.strip(): drop leading and trailing whitespace
strip(s) ==
    LET nonblank == {i \in DOMAIN s : s[i] \notin Whitespace}
    IN  IF nonblank = {} THEN <<>>
        ELSE LET lo == CHOOSE i \in nonblank : \A j \in nonblank : i <= j
                 hi == CHOOSE i \in nonblank : \A j \in nonblank : j <= i
             IN  SubSeq(s, lo, hi)

\* the Python test  q in s  on strings
Contains(q, s) == \E i \in 0..(Len(s) - Len(q)) : SubSeq(s, i + 1, i + Len(q)) = q

(***************************************************************************)
(* utils.clean_text: re.findall(r"\b\w+\b", text.lower()), the maximal     *)
(* runs of word characters of the lowercased text, in order.               *)
(***************************************************************************)
RECURSIVE FindWords(_, _, _, _)
FindWords(text, i, cur, words) ==
    IF i > Len(text)
    THEN IF cur = <<>> THEN words ELSE Append(words, cur)
    ELSE IF text[i] \in WordChars
         THEN FindWords(text, i + 1, Append(cur, text[i]), words)
         ELSE FindWords(text, i + 1, <<>>,
                        IF cur = <<>> THEN words ELSE Append(words, cur))

clean_text(text) == FindWords(lower(text), 1, <<>>, <<>>)

\* Counter(words)
CounterOf(words) ==
    [w \in Range(words) |-> Cardinality({i \in DOMAIN words : words[i] = w})]

\* dict.update(other): the counts of other replace those of counter
CounterUpdate_Replace(counter, other) == other @@ counter

\* Counter.update(other): add the counts of other
CounterUpdate(counter, other) == counter (+) other

(***************************************************************************)
(* Strategy objects.  One record shape serves both classes; the fields a   *)
(* class does not have keep their empty values.                            *)
(***************************************************************************)
NoFile == "None"

WordFrequencyStrategy ==
    [kind |-> "WordFrequencyStrategy", counter |-> EmptyBag,
     search_query |-> <<>>, case_sensitive |-> FALSE,
     matched_sentences |-> <<>>, current_file |-> NoFile, buffer |-> <<>>]

SentenceSearchStrategy(search_query, case_sensitive) ==
    [kind |-> "SentenceSearchStrategy", counter |-> EmptyBag,
     search_query |-> IF case_sensitive THEN search_query ELSE lower(search_query),
     case_sensitive |-> case_sensitive,
     matched_sentences |-> <<>>, current_file |-> NoFile, buffer |-> <<>>]

\* a strategy class the processor does not know
OtherStrategy ==
    [kind |-> "OtherStrategy", counter |-> EmptyBag,
     search_query |-> <<>>, case_sensitive |-> FALSE,
     matched_sentences |-> <<>>, current_file |-> NoFile, buffer |-> <<>>]

set_current_file(self, file_path) == [self EXCEPT !.current_file = file_path]

\* the character loop of SentenceSearchStrategy.process_chunk
RECURSIVE ScanSentences(_, _, _, _)
ScanSentences(text, i, current_sentence, sentences) ==
    IF i > Len(text)
    THEN [sentences |-> sentences, current_sentence |-> current_sentence]
    ELSE LET cur == Append(current_sentence, text[i])
         IN  IF text[i] \in Terminators
             THEN ScanSentences(text, i + 1, <<>>, Append(sentences, strip(cur)))
             ELSE ScanSentences(text, i + 1, cur, sentences)

\* the sentences of a list that contain the query, as match records
RECURSIVE MatchSentences(_, _, _, _)
MatchSentences(self, sentences, i, matched) ==
    IF i > Len(sentences) THEN matched
    ELSE LET sentence == sentences[i]
             text_to_search == IF self.case_sensitive THEN sentence ELSE lower(sentence)
         IN  MatchSentences(self, sentences, i + 1,
                 IF Contains(self.search_query, text_to_search)
                 THEN Append(matched, [file |-> self.current_file, sentence |-> sentence])
                 ELSE matched)

\* process_chunk returns the chunk's result and leaves the object in state self
SentenceSearch_process_chunk(self, chunk) ==
    LET combined_text == self.buffer \o chunk
        scan == ScanSentences(combined_text, 1, <<>>, <<>>)
        buffer == IF strip(scan.current_sentence) # <<>>
                  THEN scan.current_sentence ELSE <<>>
    IN  [self |-> [self EXCEPT !.buffer = buffer],
         ret  |-> MatchSentences(self, scan.sentences, 1, <<>>)]

SentenceSearch_merge_results(self, result) ==
    [self EXCEPT !.matched_sentences = @ \o result]

\* a final step that puts the match of the buffer before the matches found so far
SentenceSearch_get_final_result_First(self) ==
    LET text_to_search == IF self.case_sensitive THEN self.buffer ELSE lower(self.buffer)
        after == IF strip(self.buffer) # <<>> /\ Contains(self.search_query, text_to_search)
                 THEN [self EXCEPT !.matched_sentences =
                          <<[file |-> self.current_file,
                             sentence |-> strip(self.buffer)]>> \o @]
                 ELSE self
    IN  [self |-> after, ret |-> after.matched_sentences]

SentenceSearch_get_final_result(self) ==
    LET text_to_search == IF self.case_sensitive THEN self.buffer ELSE lower(self.buffer)
        after == IF strip(self.buffer) # <<>> /\ Contains(self.search_query, text_to_search)
                 THEN [self EXCEPT !.matched_sentences =
                          Append(@, [file |-> self.current_file,
                                     sentence |-> strip(self.buffer)])]
                 ELSE self
    IN  [self |-> after, ret |-> after.matched_sentences]

\* a process_chunk that holds back the word characters a chunk ends with and
\* counts them together with the next chunk
WordFrequency_process_chunk_Carry(self, chunk) ==
    LET text == self.buffer \o chunk
        nonword == {i \in DOMAIN text : text[i] \notin WordChars}
        last == IF nonword = {} THEN 0
                ELSE CHOOSE i \in nonword : \A j \in nonword : j <= i
    IN  [self |-> [self EXCEPT !.buffer = SubSeq(text, last + 1, Len(text))],
         ret |-> CounterOf(clean_text(SubSeq(text, 1, last)))]

WordFrequency_process_chunk(self, chunk) ==
    [self |-> self, ret |-> CounterOf(clean_text(chunk))]

\* a merge that stores the chunk's counts over the running ones (dict.update)
WordFrequency_merge_results_Overwrite(self, result) ==
    [self EXCEPT !.counter = result @@ @]

WordFrequency_merge_results(self, result) ==
    [self EXCEPT !.counter = CounterUpdate(@, result)]

WordFrequency_get_final_result(self) == [self |-> self, ret |-> self.counter]

\* dispatch on the class of the object
process_chunk(self, chunk) ==
    IF self.kind = "WordFrequencyStrategy" THEN WordFrequency_process_chunk(self, chunk)
    ELSE SentenceSearch_process_chunk(self, chunk)

merge_results(self, result) ==
    IF self.kind = "WordFrequencyStrategy" THEN WordFrequency_merge_results(self, result)
    ELSE SentenceSearch_merge_results(self, result)

get_final_result(self) ==
    IF self.kind = "WordFrequencyStrategy" THEN WordFrequency_get_final_result(self)
    ELSE SentenceSearch_get_final_result(self)

\* lines 139-140 of _process_file: one chunk through process_chunk and merge_results
FeedChunk(self, chunk) ==
    LET r == process_chunk(self, chunk) IN merge_results(r.self, r.ret)


(***************************************************************************)
(* The file system seen by process_files and by the workers.               *)
(***************************************************************************)
Files == {"d/1", "d/2", "x"}
DirPaths == {"", "d", "e", "nodir"}
RequestFilePaths == {<<>>, <<"x", "x">>, <<"d/1", "d/1">>}

\* os.path.exists(dir_path)
exists(dir_path) == dir_path \in {"d", "e"}

\* the files os.walk finds under dir_path
walk(dir_path) == IF dir_path = "d" THEN {"d/1", "d/2"} ELSE {}

FileText(f) ==
    IF f = "d/1" THEN <<"A", ".", " ", "a">>
    ELSE IF f = "d/2" THEN <<"b", " ">>
    ELSE <<"a", ".">>

Min(a, b) == IF a <= b THEN a ELSE b

\* all orders in which list(all_files) can enumerate a set
Orders(S) == {o \in [1..Cardinality(S) -> S] : Range(o) = S}

\* the strategy objects a processor is built with
Strategies ==
    {WordFrequencyStrategy, SentenceSearchStrategy(<<"A">>, FALSE), OtherStrategy}

\* placeholder of a variable that holds no value: whether a task or a call has
\* returned a value is told by task and by outcome
NoResult == <<>>

(***************************************************************************)
(* State of one AsyncProcessor, its current call and the tasks of the call.*)
(***************************************************************************)
VARIABLES
    strategy,          \* self.strategy
    concurrent_limit,  \* self.concurrent_limit
    semaphore,         \* free permits of self.semaphore
    total_files,       \* self.total_files
    processed_files,   \* self.processed_files
    chunk_size,        \* settings.chunk_size
    pc,                \* process_files: "idle", "gather", "merge"
    request,           \* the ProcessFilesRequest of the call
    all_files_list,    \* list(all_files)
    task,              \* state of the _process_file task of each file
    file_strategy,     \* the file_strategy object of each task
    pos,               \* characters of the file each task has read
    failure,           \* "none", "open" or "read": the exception the task caught
    task_ret,          \* value each task returned
    results,           \* what asyncio.gather returned
    outcome,           \* of the last call: "none", "pending", "returned", "ValueError"
    ret,               \* value the last call of process_files returned
    status,            \* the counters process_status returns with that value
    runs               \* calls made so far

mvars == <<strategy, concurrent_limit, semaphore, total_files, processed_files,
           chunk_size, pc, request, all_files_list, task, file_strategy,
           pos, failure, task_ret, results, outcome, ret, status, runs>>

(***************************************************************************)
(* Observer of a call: the order in which the tasks of the call return.    *)
(* No code reads it; only the completion specification records it.         *)
(***************************************************************************)
VARIABLES
    completed     \* the files of the call in the order their tasks returned

ovars == <<completed>>

\* a task between acquiring the semaphore and leaving the `async with` block
InsideGate == {"acquired", "opening", "reading", "closed", "failed", "counted", "finalized"}
\* a task that suspends between its increment and its get_final_result
Running_AwaitAfterCount == {"acquired", "finalized"}

\* a task that runs without a suspension point until its next step
Running == {"acquired", "counted", "finalized"}

Holding == {f \in Files : task[f] \in InsideGate}
Selected == Range(all_files_list)
\* no other task may take a step while one runs between two suspension points
NoneRunning == \A g \in Files : task[g] \notin Running

\* AsyncProcessor.__init__
ProcessorInit(s, limit) ==
    /\ strategy = s
    /\ concurrent_limit = limit
    /\ semaphore = limit
    /\ total_files = 0
    /\ processed_files = 0

\* lines 208-213: what process_status returns around the result of process_files
StatusOf(tf, pf, result) ==
    [total_files |-> tf, processed_files |-> pf, result |-> result]

CallIdle ==
    /\ pc = "idle"
    /\ request = [dir_path |-> "", file_paths |-> <<>>]
    /\ all_files_list = <<>>
    /\ task = [f \in Files |-> "none"]
    /\ file_strategy = [f \in Files |-> WordFrequencyStrategy]
    /\ pos = [f \in Files |-> 0]
    /\ failure = [f \in Files |-> "none"]
    /\ task_ret = [f \in Files |-> NoResult]
    /\ results = <<>>
    /\ outcome = "none"
    /\ ret = NoResult
    /\ status = StatusOf(0, 0, NoResult)
    /\ runs = 0

(***************************************************************************)
(* State of the strategy specification: one strategy object fed the text   *)
(* t_text chunk by chunk, as the read loop of _process_file feeds it.      *)
(***************************************************************************)
VARIABLES
    t_text,      \* the text of the file
    t_self,      \* the strategy object
    t_pos,       \* number of characters fed so far
    t_cuts,      \* the chunks fed so far, in order
    t_pc,        \* "feed", "done"
    t_chunked,   \* matched_sentences / counter as they were before get_final_result
    t_ret        \* the value get_final_result returned

tvars == <<t_text, t_self, t_pos, t_cuts, t_pc, t_chunked, t_ret>>

TFile == "f"
\* the text "a a b"
ExampleText == <<"a", " ", "a", " ", "b">>
Texts == SeqsUpTo(Alphabet, MaxTextLen) \cup {ExampleText}
Queries == SeqsUpTo(Alphabet, MaxQueryLen)

TStrategies ==
    {WordFrequencyStrategy}
    \cup {set_current_file(SentenceSearchStrategy(q, cs), TFile) :
            q \in Queries, cs \in BOOLEAN}

TIdle ==
    /\ t_text = <<>>
    /\ t_self = WordFrequencyStrategy
    /\ t_pos = 0
    /\ t_cuts = <<>>
    /\ t_pc = "idle"
    /\ t_chunked = <<>>
    /\ t_ret = <<>>

TInit ==
    /\ t_text \in Texts
    /\ t_self \in TStrategies
    /\ t_pos = 0
    /\ t_cuts = <<>>
    /\ t_pc = "feed"
    /\ t_chunked = <<>>
    /\ t_ret = <<>>

\* feed the next k characters as one chunk
TFeed(k) ==
    /\ t_pc = "feed"
    /\ t_pos + k <= Len(t_text)
    /\ LET chunk == SubSeq(t_text, t_pos + 1, t_pos + k)
       IN  /\ t_self' = FeedChunk(t_self, chunk)
           /\ t_cuts' = Append(t_cuts, chunk)
    /\ t_pos' = t_pos + k
    /\ UNCHANGED <<t_text, t_pc, t_chunked, t_ret>>

\* end of file: get_final_result
TFinal ==
    /\ t_pc = "feed"
    /\ t_pos = Len(t_text)
    /\ LET r == get_final_result(t_self)
       IN  /\ t_self' = r.self
           /\ t_ret' = r.ret
    /\ t_chunked' = IF t_self.kind = "WordFrequencyStrategy"
                    THEN t_self.counter ELSE t_self.matched_sentences
    /\ t_pc' = "done"
    /\ UNCHANGED <<t_text, t_pos, t_cuts>>

(***************************************************************************)
(* AsyncProcessor._create_strategy_instance                                *)
(***************************************************************************)
\* a constructor that hands back the processor's own strategy object
create_strategy_instance_Shared(self_strategy) ==
    [raised |-> self_strategy.kind \notin {"WordFrequencyStrategy", "SentenceSearchStrategy"},
     ret |-> self_strategy]

create_strategy_instance(self_strategy) ==
    IF self_strategy.kind = "WordFrequencyStrategy"
    THEN [raised |-> FALSE, ret |-> WordFrequencyStrategy]
    ELSE IF self_strategy.kind = "SentenceSearchStrategy"
    THEN [raised |-> FALSE,
          ret |-> SentenceSearchStrategy(self_strategy.search_query,
                                         self_strategy.case_sensitive)]
    ELSE [raised |-> TRUE, ret |-> self_strategy]

\* getattr(file_strategy, "set_current_file", None), called when present
SetFileIfSupported(file_strategy_, file_path) ==
    IF file_strategy_.kind = "SentenceSearchStrategy"
    THEN set_current_file(file_strategy_, file_path)
    ELSE file_strategy_

(***************************************************************************)
(* AsyncProcessor.process_files up to asyncio.gather                       *)
(***************************************************************************)
\* set(request.file_paths), plus the files of the directory
AllFiles(req) == Range(req.file_paths) \cup walk(req.dir_path)

\* a caller calls when the last call is over and its tasks have ended
CanCall ==
    /\ pc = "idle"
    /\ runs < MaxRuns
    /\ \A f \in Files : task[f] \in {"none", "done", "raised"}

\* the test of line 166 with the second `not` lost
RequestIsEmpty_NotLost(req) == req.dir_path = "" /\ req.file_paths # <<>>

\* line 166: neither dir_path nor file_paths
RequestIsEmpty(req) == req.dir_path = "" /\ req.file_paths = <<>>
\* a check of the directory that is skipped when explicit files are given
DirIsMissing_UnlessFiles(req) ==
    req.dir_path # "" /\ ~exists(req.dir_path) /\ req.file_paths = <<>>

\* line 174: dir_path given and missing
DirIsMissing(req) == req.dir_path # "" /\ ~exists(req.dir_path)

\* the call raises ValueError before launching anything
Reject(req) ==
    /\ runs' = runs + 1
    /\ request' = req
    /\ outcome' = "ValueError"
    /\ ret' = NoResult
    /\ status' = StatusOf(0, 0, NoResult)
    /\ UNCHANGED <<strategy, concurrent_limit, semaphore, total_files,
                   processed_files, chunk_size, pc, all_files_list, task,
                   file_strategy, pos, failure, task_ret, results>>

CallEmptyRequest(req) ==
    /\ CanCall
    /\ RequestIsEmpty(req)
    /\ Reject(req)

CallMissingDir(req) ==
    /\ CanCall
    /\ ~RequestIsEmpty(req)
    /\ DirIsMissing(req)
    /\ Reject(req)

\* lines 170-188: collect the files, set total_files, create one task per file
CallLaunch(req) ==
    /\ CanCall
    /\ ~RequestIsEmpty(req)
    /\ ~DirIsMissing(req)
    /\ runs' = runs + 1
    /\ request' = req
    /\ \E order \in Orders(AllFiles(req)) : all_files_list' = order
    /\ total_files' = Len(all_files_list')
    /\ task' = [f \in Files |-> IF f \in AllFiles(req) THEN "waiting" ELSE "none"]
    /\ file_strategy' = [f \in Files |-> WordFrequencyStrategy]
    /\ pos' = [f \in Files |-> 0]
    /\ failure' = [f \in Files |-> "none"]
    /\ task_ret' = [f \in Files |-> NoResult]
    /\ results' = <<>>
    /\ outcome' = "pending"
    /\ ret' = NoResult
    /\ status' = StatusOf(0, 0, NoResult)
    /\ pc' = "gather"
    /\ UNCHANGED <<strategy, concurrent_limit, semaphore, processed_files, chunk_size>>

(***************************************************************************)
(* AsyncProcessor._process_file, one action per step of the task of f      *)
(***************************************************************************)
TaskFrame == UNCHANGED <<strategy, concurrent_limit, total_files, chunk_size, pc,
                         request, all_files_list, results, outcome, ret, status, runs>>

\* a gate that admits a task whether or not a permit is free
Acquire_NoGate(f) ==
    /\ task[f] = "waiting"
    /\ NoneRunning
    /\ semaphore' = semaphore - 1
    /\ task' = [task EXCEPT ![f] = "acquired"]
    /\ TaskFrame
    /\ UNCHANGED <<processed_files, file_strategy, pos, failure, task_ret>>

\* async with self.semaphore: take a permit
Acquire(f) ==
    /\ task[f] = "waiting"
    /\ NoneRunning
    /\ semaphore > 0
    /\ semaphore' = semaphore - 1
    /\ task' = [task EXCEPT ![f] = "acquired"]
    /\ TaskFrame
    /\ UNCHANGED <<processed_files, file_strategy, pos, failure, task_ret>>

\* lines 124-128: the fresh strategy object of the file
CreateStrategy(f) ==
    /\ task[f] = "acquired"
    /\ ~create_strategy_instance(strategy).raised
    /\ file_strategy' = [file_strategy EXCEPT
            ![f] = SetFileIfSupported(create_strategy_instance(strategy).ret, f)]
    /\ task' = [task EXCEPT ![f] = "opening"]
    /\ TaskFrame
    /\ UNCHANGED <<semaphore, processed_files, pos, failure, task_ret>>

\* a ValueError that leaves the task without giving the permit back
CreateStrategyRaise_Leak(f) ==
    /\ task[f] = "acquired"
    /\ create_strategy_instance(strategy).raised
    /\ semaphore' = semaphore
    /\ task' = [task EXCEPT ![f] = "raised"]
    /\ TaskFrame
    /\ UNCHANGED <<processed_files, file_strategy, pos, failure, task_ret>>

\* line 161: ValueError leaves the `async with` block, which releases the permit
CreateStrategyRaise(f) ==
    /\ task[f] = "acquired"
    /\ create_strategy_instance(strategy).raised
    /\ semaphore' = semaphore + 1
    /\ task' = [task EXCEPT ![f] = "raised"]
    /\ TaskFrame
    /\ UNCHANGED <<processed_files, file_strategy, pos, failure, task_ret>>

\* aiofiles.open succeeds
OpenFile(f) ==
    /\ task[f] = "opening"
    /\ NoneRunning
    /\ task' = [task EXCEPT ![f] = "reading"]
    /\ TaskFrame
    /\ UNCHANGED <<semaphore, processed_files, file_strategy, pos, failure, task_ret>>

\* aiofiles.open raises; the except clause catches it
OpenFail(f) ==
    /\ task[f] = "opening"
    /\ NoneRunning
    /\ task' = [task EXCEPT ![f] = "failed"]
    /\ failure' = [failure EXCEPT ![f] = "open"]
    /\ TaskFrame
    /\ UNCHANGED <<semaphore, processed_files, file_strategy, pos, task_ret>>

\* f.read(chunk_size) at position p of the file
NextChunk(f, p, size) == SubSeq(FileText(f), p + 1, Min(p + size, Len(FileText(f))))

\* lines 136-142: a non-empty chunk goes through process_chunk and merge_results
ReadChunk(f) ==
    /\ task[f] = "reading"
    /\ NoneRunning
    /\ pos[f] < Len(FileText(f))
    /\ LET chunk == NextChunk(f, pos[f], chunk_size)
       IN  /\ file_strategy' = [file_strategy EXCEPT ![f] = FeedChunk(@, chunk)]
           /\ pos' = [pos EXCEPT ![f] = @ + Len(chunk)]
    /\ TaskFrame
    /\ UNCHANGED <<semaphore, processed_files, task, failure, task_ret>>

\* lines 137-138: the empty chunk at end of file; the file is closed
ReadEOF(f) ==
    /\ task[f] = "reading"
    /\ NoneRunning
    /\ pos[f] = Len(FileText(f))
    /\ task' = [task EXCEPT ![f] = "closed"]
    /\ TaskFrame
    /\ UNCHANGED <<semaphore, processed_files, file_strategy, pos, failure, task_ret>>

\* f.read raises; the except clause catches it
ReadError(f) ==
    /\ task[f] = "reading"
    /\ NoneRunning
    /\ task' = [task EXCEPT ![f] = "failed"]
    /\ failure' = [failure EXCEPT ![f] = "read"]
    /\ TaskFrame
    /\ UNCHANGED <<semaphore, processed_files, file_strategy, pos, task_ret>>

\* an increment on line 144 only: the except clause does not count the file
Count_NotInExcept(f) ==
    /\ task[f] \in {"closed", "failed"}
    /\ NoneRunning
    /\ processed_files' = IF task[f] = "closed" THEN processed_files + 1 ELSE processed_files
    /\ task' = [task EXCEPT ![f] = "counted"]
    /\ TaskFrame
    /\ UNCHANGED <<semaphore, file_strategy, pos, failure, task_ret>>

\* lines 144 and 149: self.processed_files += 1
Count(f) ==
    /\ task[f] \in {"closed", "failed"}
    /\ NoneRunning
    /\ processed_files' = processed_files + 1
    /\ task' = [task EXCEPT ![f] = "counted"]
    /\ TaskFrame
    /\ UNCHANGED <<semaphore, file_strategy, pos, failure, task_ret>>

\* an except clause that returns the result of a new, empty strategy object
TaskResult_DropPartial(file_strategy_, failed) ==
    IF failed = "none" THEN get_final_result(file_strategy_)
    ELSE get_final_result(
            [file_strategy_ EXCEPT !.counter = EmptyBag, !.matched_sentences = <<>>,
                                   !.buffer = <<>>])

\* lines 146 and 150: both paths return file_strategy.get_final_result()
TaskResult(file_strategy_, failed) == get_final_result(file_strategy_)

Finalize(f) ==
    /\ task[f] = "counted"
    /\ LET r == TaskResult(file_strategy[f], failure[f])
       IN  /\ file_strategy' = [file_strategy EXCEPT ![f] = r.self]
           /\ task_ret' = [task_ret EXCEPT ![f] = r.ret]
    /\ task' = [task EXCEPT ![f] = "finalized"]
    /\ TaskFrame
    /\ UNCHANGED <<semaphore, processed_files, pos, failure>>

\* a task that returns without giving its permit back
Release_Leak(f) ==
    /\ task[f] = "finalized"
    /\ semaphore' = semaphore
    /\ task' = [task EXCEPT ![f] = "done"]
    /\ TaskFrame
    /\ UNCHANGED <<processed_files, file_strategy, pos, failure, task_ret>>

\* the return leaves the `async with` block, which releases the permit
Release(f) ==
    /\ task[f] = "finalized"
    /\ semaphore' = semaphore + 1
    /\ task' = [task EXCEPT ![f] = "done"]
    /\ TaskFrame
    /\ UNCHANGED <<processed_files, file_strategy, pos, failure, task_ret>>

(***************************************************************************)
(* AsyncProcessor.process_files from asyncio.gather on.  process_status is *)
(* process_files plus a reading of the two counters when it has returned,  *)
(* so the call records both what process_files returns (ret) and what      *)
(* process_status returns (status).                                        *)
(***************************************************************************)
CallFrame == UNCHANGED <<concurrent_limit, semaphore, total_files, processed_files,
                         chunk_size, request, all_files_list, task,
                         file_strategy, pos, failure, task_ret, runs>>

\* a gather that hands back the values in the order the tasks returned
GatherReturn_AsCompleted ==
    /\ pc = "gather"
    /\ NoneRunning
    /\ \A f \in Selected : task[f] = "done"
    /\ results' = [i \in DOMAIN completed |-> task_ret[completed[i]]]
    /\ pc' = "merge"
    /\ CallFrame
    /\ UNCHANGED <<strategy, outcome, ret, status>>

\* gather returns the values of the tasks in the order of the task list
GatherReturn ==
    /\ pc = "gather"
    /\ NoneRunning
    /\ \A f \in Selected : task[f] = "done"
    /\ results' = [i \in DOMAIN all_files_list |-> task_ret[all_files_list[i]]]
    /\ pc' = "merge"
    /\ CallFrame
    /\ UNCHANGED <<strategy, outcome, ret, status>>

\* gather re-raises the exception of a task; the other tasks are not cancelled
GatherRaise ==
    /\ pc = "gather"
    /\ NoneRunning
    /\ \E f \in Selected : task[f] = "raised"
    /\ outcome' = "ValueError"
    /\ pc' = "idle"
    /\ CallFrame
    /\ UNCHANGED <<strategy, results, ret, status>>

RECURSIVE MergeCounters(_, _, _)
MergeCounters(res, i, total_counter) ==
    IF i > Len(res) THEN total_counter
    ELSE MergeCounters(res, i + 1, CounterUpdate(total_counter, res[i]))

RECURSIVE MergeSentences(_, _, _)
MergeSentences(res, i, all_matched_sentences) ==
    IF i > Len(res) THEN all_matched_sentences
    ELSE MergeSentences(res, i + 1, all_matched_sentences \o res[i])

\* a merge that folds the results into the processor's own strategy object
MergePerFileResults_IntoStrategy(self_strategy, res) ==
    LET merged ==
          IF self_strategy.kind = "WordFrequencyStrategy"
          THEN [self_strategy EXCEPT !.counter = MergeCounters(res, 1, @)]
          ELSE IF self_strategy.kind = "SentenceSearchStrategy"
          THEN [self_strategy EXCEPT
                  !.matched_sentences = MergeSentences(res, 1, @)]
          ELSE self_strategy
    IN  [ret |-> IF self_strategy.kind = "WordFrequencyStrategy" THEN merged.counter
                 ELSE IF self_strategy.kind = "SentenceSearchStrategy"
                 THEN merged.matched_sentences
                 ELSE res,
         strategy |-> merged,
         results |-> res]

\* lines 190-203: the value returned, and the objects the loop worked on afterwards
MergePerFileResults(self_strategy, res) ==
    [ret |-> IF self_strategy.kind = "WordFrequencyStrategy"
             THEN MergeCounters(res, 1, EmptyBag)
             ELSE IF self_strategy.kind = "SentenceSearchStrategy"
             THEN MergeSentences(res, 1, <<>>)
             ELSE res,
     strategy |-> self_strategy,
     results |-> res]

Aggregate ==
    /\ pc = "merge"
    /\ LET m == MergePerFileResults(strategy, results)
       IN  /\ ret' = m.ret
           /\ status' = StatusOf(total_files, processed_files, m.ret)
           /\ strategy' = m.strategy
           /\ results' = m.results
    /\ outcome' = "returned"
    /\ pc' = "idle"
    /\ CallFrame

(***************************************************************************)
(* State of the merge specification: the merge of lines 190-203 applied to *)
(* a list of per-file results, and applied again to the same list.         *)
(***************************************************************************)
VARIABLES
    m_strategy,   \* self.strategy
    m_results,    \* the list of per-file results
    m_given,      \* the strategy object and the list as they were given
    m_applied,    \* how many times the merge has been applied
    m_first,      \* what the first application returned
    m_ret         \* what the last application returned

gvars == <<m_strategy, m_results, m_given, m_applied, m_first, m_ret>>

Tokens == {<<"a">>, <<"b">>}
\* the Counters over Tokens with counts up to MaxCount
Counters == UNION {[T -> 1..MaxCount] : T \in SUBSET Tokens}
\* the per-file Counters {a: 2} and {a: 1, b: 3}
ExampleResults == <<(<<"a">> :> 2), (<<"a">> :> 1 @@ <<"b">> :> 3)>>
Matches == [file : {"d/1", "x"}, sentence : {<<"a", ".">>, <<"b">>}]
MatchLists == SeqsUpTo(Matches, 1)

MIdle ==
    /\ m_strategy = WordFrequencyStrategy
    /\ m_results = <<>>
    /\ m_given = [strategy |-> WordFrequencyStrategy, results |-> <<>>]
    /\ m_applied = 0
    /\ m_first = <<>>
    /\ m_ret = <<>>

MInit ==
    /\ \/ /\ m_strategy = WordFrequencyStrategy
          /\ m_results \in SeqsUpTo(Counters, MaxResults) \cup {ExampleResults}
       \/ /\ m_strategy = SentenceSearchStrategy(<<"a">>, FALSE)
          /\ m_results \in SeqsUpTo(MatchLists, MaxResults)
    /\ m_given = [strategy |-> m_strategy, results |-> m_results]
    /\ m_applied = 0
    /\ m_first = <<>>
    /\ m_ret = <<>>

\* apply the merge to the list
MApply ==
    /\ m_applied < 2
    /\ LET m == MergePerFileResults(m_strategy, m_results)
       IN  /\ m_ret' = m.ret
           /\ m_strategy' = m.strategy
           /\ m_results' = m.results
           /\ m_first' = IF m_applied = 0 THEN m.ret ELSE m_first
    /\ m_applied' = m_applied + 1
    /\ UNCHANGED m_given

(***************************************************************************)
(* Specifications                                                          *)
(***************************************************************************)
vars == <<mvars, tvars, gvars, ovars>>

Requests == [dir_path : DirPaths, file_paths : RequestFilePaths]

Init ==
    /\ \E s \in Strategies, limit \in 0..MaxLimit : ProcessorInit(s, limit)
    /\ chunk_size = ChunkSize
    /\ CallIdle
    /\ TIdle
    /\ MIdle
    /\ completed = <<>>

TaskStep(f) ==
    \/ Acquire(f)
    \/ CreateStrategy(f)
    \/ CreateStrategyRaise(f)
    \/ OpenFile(f)
    \/ OpenFail(f)
    \/ ReadChunk(f)
    \/ ReadEOF(f)
    \/ ReadError(f)
    \/ Count(f)
    \/ Finalize(f)
    \/ Release(f)

Next ==
    \/ \E req \in Requests : CallEmptyRequest(req) /\ UNCHANGED <<tvars, gvars, ovars>>
    \/ \E req \in Requests : CallMissingDir(req) /\ UNCHANGED <<tvars, gvars, ovars>>
    \/ \E req \in Requests : CallLaunch(req) /\ UNCHANGED <<tvars, gvars, ovars>>
    \/ \E f \in Files : TaskStep(f) /\ UNCHANGED <<tvars, gvars, ovars>>
    \/ GatherReturn /\ UNCHANGED <<tvars, gvars, ovars>>
    \/ GatherRaise /\ UNCHANGED <<tvars, gvars, ovars>>
    \/ Aggregate /\ UNCHANGED <<tvars, gvars, ovars>>

Spec == Init /\ [][Next]_vars

\* one strategy object fed a text in chunks of any sizes
StrategyInit ==
    /\ ProcessorInit(WordFrequencyStrategy, 1)
    /\ chunk_size = ChunkSize
    /\ CallIdle
    /\ TInit
    /\ MIdle
    /\ completed = <<>>

StrategyNext ==
    \/ \E k \in 1..Len(ExampleText) : TFeed(k) /\ UNCHANGED <<mvars, gvars, ovars>>
    \/ TFinal /\ UNCHANGED <<mvars, gvars, ovars>>

SpecStrategy == StrategyInit /\ [][StrategyNext]_vars

\* the merge of a list of per-file results
MergeInit ==
    /\ ProcessorInit(WordFrequencyStrategy, 1)
    /\ chunk_size = ChunkSize
    /\ CallIdle
    /\ TIdle
    /\ MInit
    /\ completed = <<>>

MergeNext == MApply /\ UNCHANGED <<mvars, tvars, ovars>>

SpecMerge == MergeInit /\ [][MergeNext]_vars

\* The event loop keeps running: while a task or the call itself can take a
\* step (a permit is free for a waiting task, an awaited open or read
\* completes, gather is ready), some such step is taken.  Nothing obliges a
\* caller to call again.
Progress ==
    /\ \/ \E f \in Files : TaskStep(f)
       \/ GatherReturn
       \/ GatherRaise
       \/ Aggregate
    /\ UNCHANGED <<tvars, gvars, ovars>>

Fairness == WF_vars(Progress)

\* The fair specification follows one call from a new processor to its end:
\* a later call starts from the same state but for the value of processed_files.
LiveNext == Next /\ runs' <= 1

FairSpec == Init /\ [][LiveNext]_vars /\ Fairness

\* The first call of a sentence-search processor, with the order in which the
\* tasks of the call return recorded in completed.
CompletionInit ==
    /\ \E limit \in 1..MaxLimit : ProcessorInit(SentenceSearchStrategy(<<"A">>, FALSE), limit)
    /\ chunk_size = ChunkSize
    /\ CallIdle
    /\ TIdle
    /\ MIdle
    /\ completed = <<>>

\* a step of the task of f that is not its return
WorkStep(f) ==
    \/ Acquire(f)
    \/ CreateStrategy(f)
    \/ OpenFile(f)
    \/ OpenFail(f)
    \/ ReadChunk(f)
    \/ ReadEOF(f)
    \/ ReadError(f)
    \/ Count(f)
    \/ Finalize(f)

CompletionNext ==
    \/ \E req \in Requests :
          runs = 0 /\ CallLaunch(req) /\ completed' = <<>> /\ UNCHANGED <<tvars, gvars>>
    \/ \E f \in Files : WorkStep(f) /\ UNCHANGED <<tvars, gvars, ovars>>
    \/ \E f \in Files :
          Release(f) /\ completed' = Append(completed, f) /\ UNCHANGED <<tvars, gvars>>
    \/ GatherReturn /\ UNCHANGED <<tvars, gvars, ovars>>
    \/ Aggregate /\ UNCHANGED <<tvars, gvars, ovars>>

SpecCompletion == CompletionInit /\ [][CompletionNext]_vars

\* strategy objects that were used before they are handed to a processor: a
\* counter that holds a count, a match list, a buffer and a current file
UsedStrategies ==
    {[WordFrequencyStrategy EXCEPT !.counter = CounterOf(<< <<"a">> >>)],
     [SentenceSearchStrategy(<<"A">>, FALSE) EXCEPT
        !.current_file = "old",
        !.buffer = <<"a">>,
        !.matched_sentences = <<[file |-> "old", sentence |-> <<"A", ".">>]>>]}

\* The calls of a processor that was built with a used strategy object.
PrototypeInit ==
    /\ \E s \in UsedStrategies, limit \in 1..MaxLimit : ProcessorInit(s, limit)
    /\ chunk_size = ChunkSize
    /\ CallIdle
    /\ TIdle
    /\ MIdle
    /\ completed = <<>>

PrototypeNext ==
    \/ \E req \in Requests : CallEmptyRequest(req) /\ UNCHANGED <<tvars, gvars, ovars>>
    \/ \E req \in Requests : CallMissingDir(req) /\ UNCHANGED <<tvars, gvars, ovars>>
    \/ \E req \in Requests : CallLaunch(req) /\ UNCHANGED <<tvars, gvars, ovars>>
    \/ \E f \in Files : (WorkStep(f) \/ Release(f)) /\ UNCHANGED <<tvars, gvars, ovars>>
    \/ GatherReturn /\ UNCHANGED <<tvars, gvars, ovars>>
    \/ Aggregate /\ UNCHANGED <<tvars, gvars, ovars>>

SpecPrototype == PrototypeInit /\ [][PrototypeNext]_vars

(***************************************************************************)
(* Claims                                                                  *)
(***************************************************************************)
\* the files a request selects, from the request alone
SelectedBy(req) ==
    {req.file_paths[i] : i \in DOMAIN req.file_paths}
    \cup (IF req.dir_path = "d" THEN {"d/1", "d/2"} ELSE {})

Supported == strategy.kind \in {"WordFrequencyStrategy", "SentenceSearchStrategy"}

\* C1: at every moment of a run, the number of _process_file tasks that have
\* acquired the semaphore and not yet released it is at most concurrent_limit.
C1_ConcurrencyBound ==
    Cardinality({f \in Files : task[f] \in InsideGate}) <= concurrent_limit

\* the gate is full while another task waits for a permit
C1_Witness ==
    /\ concurrent_limit = 2
    /\ Cardinality({f \in Files : task[f] \in InsideGate}) = 2
    /\ \E f \in Files : task[f] = "waiting"

\* when gather has returned, results holds one value per selected file, each
\* the value its task returned, and every task has completed
C2_Collected ==
    (pc = "merge" \/ outcome = "returned") =>
        /\ Range(all_files_list) = SelectedBy(request)
        /\ Len(all_files_list) = Cardinality(SelectedBy(request))
        /\ Len(results) = Cardinality(SelectedBy(request))
        /\ \A i \in DOMAIN results :
              /\ task[all_files_list[i]] = "done"
              /\ results[i] = task_ret[all_files_list[i]]

\* C2: with a limit of at least 1 and a supported strategy, every launched task
\* gets a permit and completes and the call returns (a call returns only from
\* C2_Collected, with every task done); when it has returned it holds one
\* result per selected file, failed files included, collected after every
\* task has completed.
C2_RunCompletes ==
    /\ []C2_Collected
    /\ (pc = "gather" /\ concurrent_limit >= 1 /\ Supported) ~> (outcome = "returned")

\* a run of three files under a limit of 1 has returned, one of them failed
C2_Witness ==
    /\ outcome = "returned"
    /\ concurrent_limit = 1
    /\ Len(results) = 3
    /\ \E f \in Files : failure[f] = "read"

\* C3: a call whose request has neither a directory nor files raises
\* ValueError and returns nothing, whatever the strategy.
C3_EmptyRequestRejected ==
    (runs > 0 /\ request.dir_path = "" /\ request.file_paths = <<>>) =>
        /\ outcome = "ValueError"
        /\ ret = NoResult
        /\ pc = "idle"

\* the empty request was made on a sentence-search processor after a good run
C3_Witness ==
    /\ runs = 2
    /\ request.dir_path = "" /\ request.file_paths = <<>>
    /\ strategy.kind = "SentenceSearchStrategy"
    /\ processed_files > 0
    /\ outcome = "ValueError"

\* the state of a fresh strategy object of file f after the first n characters
\* of the file went through it in chunks of chunk_size
RECURSIVE FedPrefix(_, _, _, _)
FedPrefix(self, f, p, n) ==
    IF p >= n THEN self
    ELSE LET chunk == SubSeq(FileText(f), p + 1, Min(p + chunk_size, Len(FileText(f))))
         IN  FedPrefix(FeedChunk(self, chunk), f, p + Len(chunk), n)

FreshFor(f) ==
    IF strategy.kind = "WordFrequencyStrategy" THEN WordFrequencyStrategy
    ELSE [SentenceSearchStrategy(strategy.search_query, strategy.case_sensitive)
            EXCEPT !.current_file = f]

EmptyResult == IF strategy.kind = "WordFrequencyStrategy" THEN EmptyBag ELSE <<>>

\* C4: a file that cannot be opened or whose read fails does not fail the call:
\* its task returns the final result of the chunks read before the failure
\* (the empty result when none was), the call returns, and when every selected
\* file failed to open the call returns the empty result.
C4_FailuresDegrade ==
    /\ \A f \in Files :
          (failure[f] # "none" /\ task[f] \in {"finalized", "done"}) =>
              /\ task_ret[f] = get_final_result(FedPrefix(FreshFor(f), f, 0, pos[f])).ret
              /\ (pos[f] = 0 => task_ret[f] = EmptyResult)
              /\ (failure[f] = "open" => pos[f] = 0)
    /\ (outcome = "ValueError" =>
          \/ ~Supported
          \/ (request.dir_path = "" /\ request.file_paths = <<>>)
          \/ request.dir_path = "nodir")
    /\ (/\ outcome = "returned"
        /\ Supported
        /\ \A i \in DOMAIN all_files_list : failure[all_files_list[i]] = "open")
          => ret = EmptyResult
    /\ (outcome = "returned" /\ Supported) =>
          ret = MergePerFileResults(strategy,
                    [i \in DOMAIN all_files_list |-> task_ret[all_files_list[i]]]).ret

\* a read failed after a chunk that left a match or a count, and the call returned
C4_Witness ==
    /\ outcome = "returned"
    /\ \E f \in Files :
          /\ failure[f] = "read"
          /\ pos[f] > 0
          /\ task_ret[f] # EmptyResult
    /\ \E f \in Files : failure[f] = "open" /\ task[f] = "done"

\* C5: whenever a call returns normally, processed_files equals total_files
\* of that call, and during a call processed_files never exceeds total_files,
\* for every call made on the same processor.
C5_StatsPerRun ==
    /\ (outcome = "returned" => status.processed_files = status.total_files)
    /\ (pc = "gather" => processed_files <= total_files)

\* what one strategy object returns when the whole text is its only chunk
WholeTextResult ==
    LET fresh == IF t_self.kind = "WordFrequencyStrategy" THEN WordFrequencyStrategy
                 ELSE [t_self EXCEPT !.matched_sentences = <<>>, !.buffer = <<>>]
    IN  get_final_result(FeedChunk(fresh, t_text)).ret

\* C6: for every text, query, case setting and cut into chunks, the matches of
\* one sentence-search object fed the chunks in order are the matches it gives
\* for the whole text as a single chunk.
C6_ChunkingInvariant ==
    (t_pc = "done" /\ t_self.kind = "SentenceSearchStrategy") =>
        t_ret = WholeTextResult

\* the text after the last sentence terminator
TrailingText(text) ==
    LET terms == {i \in DOMAIN text : text[i] \in {".", "!", "?"}}
        last == IF terms = {} THEN 0
                ELSE CHOOSE i \in terms : \A j \in terms : j <= i
    IN  SubSeq(text, last + 1, Len(text))

\* C7: when the text ends with non-blank text after its last terminator and
\* that text contains the query, the result has exactly one match for it, added
\* by get_final_result and by no process_chunk, and it is the last match.
C7_TrailingMatch ==
    LET trailing == TrailingText(t_text)
        folded == IF t_self.case_sensitive THEN trailing
                  ELSE [i \in DOMAIN trailing |->
                          IF trailing[i] = "A" THEN "a" ELSE trailing[i]]
        isblank == \A i \in DOMAIN trailing : trailing[i] = " "
        found == \E i \in 0..(Len(folded) - Len(t_self.search_query)) :
                    SubSeq(folded, i + 1, i + Len(t_self.search_query))
                        = t_self.search_query
    IN  (t_pc = "done" /\ t_self.kind = "SentenceSearchStrategy" /\ ~isblank /\ found) =>
            /\ Len(t_ret) = Len(t_chunked) + 1
            /\ SubSeq(t_ret, 1, Len(t_chunked)) = t_chunked
            /\ t_ret[Len(t_ret)] = [file |-> TFile, sentence |-> strip(trailing)]
            /\ \A i \in DOMAIN t_chunked : t_chunked[i].sentence # strip(trailing)

\* no chunk boundary of the cut lies between two word characters
NoWordSplit(cuts) ==
    \A i \in 1..(Len(cuts) - 1) :
        ~(cuts[i][Len(cuts[i])] \in {"a", "A", "b"} /\ cuts[i + 1][1] \in {"a", "A", "b"})

\* C8: for every text and every cut that splits no word, the word-frequency
\* result of one object fed the chunks in order is the token count of the
\* whole text; "a a b" gives {a: 2, b: 1} for every chunk size.
C8_WordFrequencyRoundTrip ==
    /\ (t_pc = "done" /\ t_self.kind = "WordFrequencyStrategy" /\ NoWordSplit(t_cuts)) =>
          t_ret = CounterOf(clean_text(t_text))
    /\ (t_pc = "done" /\ t_self.kind = "WordFrequencyStrategy" /\ t_text = ExampleText
        /\ \E k \in {1, 2, 1024} : \A i \in DOMAIN t_cuts :
              Len(t_cuts[i]) = (IF i < Len(t_cuts) THEN k
                                ELSE Len(ExampleText) - k * (Len(t_cuts) - 1))
                  /\ Len(t_cuts[i]) <= k) =>
          t_ret = (<<"a">> :> 2 @@ <<"b">> :> 1)

\* "a a b" was read in chunks of 2 and counted
C8_Witness ==
    /\ t_pc = "done"
    /\ t_self.kind = "WordFrequencyStrategy"
    /\ t_cuts = << <<"a", " ">>, <<"a", " ">>, <<"b">> >>
    /\ t_ret = (<<"a">> :> 2 @@ <<"b">> :> 1)

\* the count of a token in a Counter
CountIn(counter, token) == IF token \in DOMAIN counter THEN counter[token] ELSE 0

RECURSIVE SumOver(_, _, _)
SumOver(res, token, i) ==
    IF i > Len(res) THEN 0 ELSE CountIn(res[i], token) + SumOver(res, token, i + 1)

\* C9: for word frequency the merged count of every token is the sum of its
\* counts over the per-file results, and folding the results in any order
\* gives the same merge; {a:2} and {a:1,b:3} give {a:3,b:3}.
C9_MergeIsSum ==
    (m_applied >= 1 /\ m_given.strategy.kind = "WordFrequencyStrategy") =>
        /\ \A token \in Tokens : CountIn(m_ret, token) = SumOver(m_given.results, token, 1)
        /\ DOMAIN m_ret \subseteq Tokens
        /\ \A token \in DOMAIN m_ret : m_ret[token] > 0
        /\ \A p \in Orders(DOMAIN m_given.results) :
              MergeCounters([i \in DOMAIN p |-> m_given.results[p[i]]], 1, EmptyBag) = m_ret
        /\ (m_given.results = ExampleResults
              => m_ret = (<<"a">> :> 3 @@ <<"b">> :> 3))

\* {a:2} and {a:1,b:3} were merged
C9_Witness ==
    /\ m_applied >= 1
    /\ m_given.results = ExampleResults
    /\ m_ret = (<<"a">> :> 3 @@ <<"b">> :> 3)

\* C10: the merge applied twice to the same list returns the same value, and
\* it leaves the per-file results and the processor's strategy object as given.
C10_MergeIsPure ==
    /\ (m_applied >= 1 =>
          /\ m_results = m_given.results
          /\ m_strategy = m_given.strategy)
    /\ (m_applied = 2 => m_ret = m_first)

\* a list of three non-empty results was merged twice
C10_Witness ==
    /\ m_applied = 2
    /\ Len(m_given.results) = 3
    /\ \A i \in DOMAIN m_given.results : m_given.results[i] # <<>>
    /\ m_ret # <<>>

\* C11: a processor built with a strategy of another kind fails every call
\* with a valid request with ValueError and returns no result, whatever the
\* files selected, the empty selection of an existing empty directory included.
C11_UnsupportedStrategyFails ==
    (/\ strategy.kind = "OtherStrategy"
     /\ runs > 0
     /\ pc = "idle"
     /\ ~(request.dir_path = "" /\ request.file_paths = <<>>)
     /\ request.dir_path # "nodir") =>
        /\ outcome = "ValueError"
        /\ ret = NoResult

\* C12: a call whose request names a directory that does not exist, with or
\* without explicit files, and a call with the empty request raise ValueError
\* and leave the tasks, the semaphore, total_files and processed_files as they
\* were: no task is created and no permit is taken.
C12_RejectionKeepsState ==
    [][(/\ runs' = runs + 1
        /\ \/ request'.dir_path = "nodir"
           \/ (request'.dir_path = "" /\ request'.file_paths = <<>>)) =>
          /\ outcome' = "ValueError"
          /\ ret' = NoResult
          /\ pc' = "idle"
          /\ task' = task
          /\ all_files_list' = all_files_list
          /\ semaphore' = semaphore
          /\ total_files' = total_files
          /\ processed_files' = processed_files]_vars

\* a missing directory was named together with explicit files, after a run
\* that had counted files
C12_Witness ==
    /\ runs = 2
    /\ request.dir_path = "nodir"
    /\ request.file_paths # <<>>
    /\ outcome = "ValueError"
    /\ total_files > 0
    /\ processed_files > 0
    /\ semaphore = concurrent_limit

\* the per-file match lists of the files of order, one after the other
RECURSIVE BlocksIn(_, _)
BlocksIn(order, i) ==
    IF i > Len(order) THEN <<>>
    ELSE task_ret[order[i]] \o BlocksIn(order, i + 1)

\* C13 as stated: the list a sentence-search call returns is the per-file
\* match lists concatenated in the order in which the tasks completed.
C13_CompletionOrder ==
    (outcome = "returned" /\ strategy.kind = "SentenceSearchStrategy") =>
        ret = BlocksIn(completed, 1)

\* C13: the list a sentence-search call returns is the per-file match lists
\* concatenated in the order of the task list, which enumerates the set of
\* selected files, in whatever order the tasks completed.
C13_TaskListOrder ==
    (outcome = "returned" /\ strategy.kind = "SentenceSearchStrategy") =>
        /\ ret = BlocksIn(all_files_list, 1)
        /\ Range(completed) = Range(all_files_list)
        /\ Len(completed) = Len(all_files_list)

\* two files with matches completed in the order opposite to the task list's
C13_Witness ==
    /\ outcome = "returned"
    /\ strategy.kind = "SentenceSearchStrategy"
    /\ \E i, j \in DOMAIN all_files_list, k, l \in DOMAIN completed :
          /\ i < j /\ k < l
          /\ all_files_list[i] = completed[l]
          /\ all_files_list[j] = completed[k]
          /\ task_ret[all_files_list[i]] # <<>>
          /\ task_ret[all_files_list[j]] # <<>>
    /\ ret # BlocksIn(completed, 1)

\* the matches of file f in a match list, in the order of the list
FileMatches(matches, f) == SelectSeq(matches, LAMBDA m : m.file = f)

\* the sentences of matches occur in text one after the other, from position from
RECURSIVE InTextOrder(_, _, _, _)
InTextOrder(text, matches, i, from) ==
    IF i > Len(matches) THEN TRUE
    ELSE LET s == matches[i].sentence
         IN  \E p \in from..(Len(text) - Len(s) + 1) :
                /\ SubSeq(text, p, p + Len(s) - 1) = s
                /\ InTextOrder(text, matches, i + 1, p + Len(s))

IsPrefix(s, t) == Len(s) <= Len(t) /\ SubSeq(t, 1, Len(s)) = s

\* the list a sentence-search call returned holds the matches of each file as
\* its task returned them, in the order their sentences occur in the file
C14_PerFileOrder ==
    (outcome = "returned" /\ strategy.kind = "SentenceSearchStrategy") =>
        \A f \in Files :
            /\ FileMatches(ret, f) = task_ret[f]
            /\ InTextOrder(FileText(f), FileMatches(ret, f), 1, 1)

\* a step that reads a chunk of f reads the next chunk_size characters of the
\* file, appends the matches of that chunk to the matches found so far, and
\* changes the object and the position of no other file; the final step of f
\* keeps the matches found so far and adds at most one after them
C14_ChunkStep ==
    \A f \in Files :
        /\ (task[f] = "reading" /\ file_strategy[f].kind = "SentenceSearchStrategy"
            /\ pos'[f] # pos[f]) =>
              /\ pos'[f] = Min(pos[f] + chunk_size, Len(FileText(f)))
              /\ LET chunk == SubSeq(FileText(f), pos[f] + 1, pos'[f])
                     r == process_chunk(file_strategy[f], chunk)
                 IN  /\ file_strategy'[f].matched_sentences
                            = file_strategy[f].matched_sentences \o r.ret
                     /\ file_strategy'[f].buffer = r.self.buffer
              /\ \A g \in Files \ {f} :
                    file_strategy'[g] = file_strategy[g] /\ pos'[g] = pos[g]
        /\ (task[f] # "reading" /\ task[f] = task'[f]) =>
              file_strategy'[f] = file_strategy[f] /\ pos'[f] = pos[f]
        /\ (task[f] = "counted" /\ task'[f] = "finalized"
            /\ file_strategy[f].kind = "SentenceSearchStrategy") =>
              /\ IsPrefix(file_strategy[f].matched_sentences, task_ret'[f])
              /\ Len(task_ret'[f]) <= Len(file_strategy[f].matched_sentences) + 1

\* C14: in the list a sentence-search call returns, the matches of each file
\* stand in the order in which they were found in the file (chunks in file
\* order, the match of get_final_result last) under every interleaving of the
\* tasks, and a chunk goes through process_chunk and merge_results in one step
\* during which no other task acts.
C14_InFileOrder == []C14_PerFileOrder /\ [][C14_ChunkStep]_vars

\* three files were read by interleaved tasks; one file gave a match from a
\* chunk and then one from get_final_result
C14_Witness ==
    /\ outcome = "returned"
    /\ strategy.kind = "SentenceSearchStrategy"
    /\ concurrent_limit = 2
    /\ Len(all_files_list) = 3
    /\ \E f \in Files :
          /\ Len(FileMatches(ret, f)) = 2
          /\ failure[f] = "none"
    /\ \E i \in DOMAIN ret : i > 1 /\ ret[i].file # ret[1].file

\* the tasks of the call that are past their increment of processed_files
Counted == {f \in Files : task[f] \in {"counted", "finalized", "done"}}

\* in the first call of a processor processed_files is the number of tasks
\* past their increment
C15_CountedOnce ==
    runs = 1 => processed_files = Cardinality(Counted)

\* every step within a call adds to processed_files the number of tasks that
\* pass their increment in that step, none of which had passed it before; no
\* step lowers processed_files, and a task returns only after its increment
C15_CountStep ==
    /\ processed_files' >= processed_files
    /\ (runs' = runs) =>
          /\ Counted \subseteq Counted'
          /\ processed_files' = processed_files + Cardinality(Counted' \ Counted)
          /\ \A f \in Counted' \ Counted : task[f] \in {"closed", "failed"}
    /\ (runs' # runs) => processed_files' = processed_files
    /\ \A f \in Files : (task[f] # "done" /\ task'[f] = "done") => f \in Counted

\* C15: every task that got its strategy object increments processed_files
\* exactly once, at end of file, after a failed open and after a failed read;
\* under every interleaving of the tasks each increment adds one, and
\* processed_files never decreases.
C15_OneIncrementPerTask == []C15_CountedOnce /\ [][C15_CountStep]_vars

\* a call of three interleaved tasks has returned: one read to the end of its
\* file, one failed to open, one failed in a read, and all three are counted
C15_Witness ==
    /\ runs = 1
    /\ outcome = "returned"
    /\ concurrent_limit = 2
    /\ \E f, g, h \in Files :
          /\ failure[f] = "none" /\ task[f] = "done"
          /\ failure[g] = "open" /\ task[g] = "done"
          /\ failure[h] = "read" /\ task[h] = "done"
    /\ processed_files = 3

\* the step in which the task of f gets its strategy object is taken while the
\* task holds a permit and leaves a new object: no counts, or no matches and no
\* buffer with the query and the case flag of the processor's strategy object
C16_FreshInstance ==
    \A f \in Files :
        (task[f] = "acquired" /\ task'[f] = "opening") =>
            /\ semaphore < concurrent_limit
            /\ file_strategy'[f].kind = strategy.kind
            /\ file_strategy'[f].counter = EmptyBag
            /\ file_strategy'[f].matched_sentences = <<>>
            /\ file_strategy'[f].buffer = <<>>
            /\ file_strategy'[f].search_query = strategy.search_query
            /\ file_strategy'[f].case_sensitive = strategy.case_sensitive
            /\ file_strategy'[f].current_file =
                  (IF strategy.kind = "SentenceSearchStrategy" THEN f ELSE NoFile)

\* within a call the strategy object of a task changes only in a step of that
\* task, and that step changes the object of no other task
C16_OwnInstance ==
    \A f \in Files :
        (runs' = runs /\ file_strategy'[f] # file_strategy[f]) =>
            /\ task[f] \in {"acquired", "reading", "counted"}
            /\ \A g \in Files \ {f} :
                  file_strategy'[g] = file_strategy[g] /\ task'[g] = task[g]

\* C16: each task builds a new strategy object of its own after it acquired
\* its permit, empty but for the query and the case flag of the processor's
\* strategy object; the object of a task is changed by that task only, and the
\* strategy object the processor was built with is changed by no step of any
\* call.
C16_InstancePerTask ==
    [][C16_FreshInstance /\ C16_OwnInstance /\ strategy' = strategy]_vars

\* a second call on a processor built with a used strategy object has returned
\* a result that holds none of what that object held
C16_Witness ==
    /\ runs = 2
    /\ outcome = "returned"
    /\ strategy.kind = "SentenceSearchStrategy"
    /\ strategy.matched_sentences # <<>>
    /\ strategy.buffer # <<>>
    /\ Len(all_files_list) = 3
    /\ \A f \in Files :
          /\ task[f] = "done"
          /\ file_strategy[f].matched_sentences # strategy.matched_sentences
    /\ ret # <<>>
    /\ \A i \in DOMAIN ret : ret[i].file # strategy.current_file

\* the counts of the chunks, each chunk counted by itself, added up
RECURSIVE SumChunks(_, _)
SumChunks(cuts, i) ==
    IF i > Len(cuts) THEN EmptyBag
    ELSE CounterOf(clean_text(cuts[i])) (+) SumChunks(cuts, i + 1)

\* the chunk boundaries that lie between two word characters
SplitBoundaries(cuts) ==
    {i \in 1..(Len(cuts) - 1) :
        cuts[i][Len(cuts[i])] \in WordChars /\ cuts[i + 1][1] \in WordChars}

\* C17: a word-frequency object counts every chunk by itself and keeps nothing
\* between chunks but the running total; so a word cut by a chunk boundary is
\* counted as the part before and the part after the boundary, one token more
\* per cut than the whole text has, and a text that is one word cut in two
\* gives the two parts and not the word.
C17_SplitWordCounted ==
    (t_pc \in {"feed", "done"} /\ t_self.kind = "WordFrequencyStrategy") =>
        /\ t_self = [WordFrequencyStrategy EXCEPT !.counter = t_self.counter]
        /\ t_self.counter = SumChunks(t_cuts, 1)
        /\ t_pc = "done" =>
              /\ t_ret = SumChunks(t_cuts, 1)
              /\ BagCardinality(t_ret)
                    = BagCardinality(CounterOf(clean_text(t_text)))
                        + Cardinality(SplitBoundaries(t_cuts))
              /\ (Len(t_cuts) = 2 /\ \A i \in DOMAIN t_text : t_text[i] \in WordChars) =>
                    /\ t_ret = CounterOf(<<lower(t_cuts[1]), lower(t_cuts[2])>>)
                    /\ lower(t_text) \notin DOMAIN t_ret

\* the word "aAa" was read as the chunks "aA" and "a"
C17_Witness ==
    /\ t_pc = "done"
    /\ t_self.kind = "WordFrequencyStrategy"
    /\ t_cuts = << <<"a", "A">>, <<"a">> >>
    /\ t_ret = (<<"a", "a">> :> 1 @@ <<"a">> :> 1)

\* C18 as stated: a task releases its permit and has its result before it
\* increments processed_files, so the tasks processed_files counts (in the
\* first call of a processor) have all returned and hold no permit.
C18_CountedAfterRelease ==
    runs = 1 =>
        /\ processed_files <= Cardinality({f \in Files : task[f] = "done"})
        /\ processed_files + Cardinality({f \in Files : task[f] \in InsideGate})
              <= Cardinality({f \in Files : task[f] # "none"})

\* whenever a task is at a suspension point or the caller runs, the tasks
\* processed_files counts (in the first call of a processor) are the tasks
\* that have returned their result and released their permit
C18_ObservedCounts ==
    (runs = 1 /\ NoneRunning) =>
        /\ processed_files = Cardinality({f \in Files : task[f] = "done"})
        /\ processed_files + Cardinality({f \in Files : task[f] \in InsideGate})
              <= Cardinality({f \in Files : task[f] # "none"})

\* the increment is made by a task that holds its permit and has not called
\* get_final_result; the next step of the program is that task's call of
\* get_final_result, and the step after it is the release of its permit
C18_FinalSteps ==
    /\ (processed_files' # processed_files) =>
          \E f \in Files :
              /\ task[f] \in {"closed", "failed"}
              /\ task'[f] = "counted"
              /\ semaphore' = semaphore
              /\ task_ret' = task_ret
    /\ \A f \in Files :
          /\ (task[f] = "counted") =>
                /\ task'[f] = "finalized"
                /\ task_ret'[f] = get_final_result(file_strategy[f]).ret
                /\ semaphore' = semaphore
                /\ processed_files' = processed_files
                /\ \A g \in Files \ {f} : task'[g] = task[g]
          /\ (task[f] = "finalized") =>
                /\ task'[f] = "done"
                /\ semaphore' = semaphore + 1
                /\ processed_files' = processed_files
                /\ task_ret' = task_ret
                /\ \A g \in Files \ {f} : task'[g] = task[g]

\* C18: in every task the final steps are, in this order and with no
\* suspension point between them, the increment of processed_files, the call
\* of get_final_result and the release of the permit; hence whenever another
\* task or the caller can look, every task processed_files counts has its
\* result and holds no permit.
C18_CountFinalizeRelease == []C18_ObservedCounts /\ [][C18_FinalSteps]_vars

\* a task has been counted and has its result while it still holds its permit,
\* and another task waits in a read
C18_Witness ==
    /\ runs = 1
    /\ concurrent_limit = 2
    /\ semaphore = 0
    /\ processed_files = 1
    /\ \E f, g \in Files :
          /\ task[f] = "finalized"
          /\ task[g] = "reading"
          /\ \A h \in Files : task[h] # "done"

\* C19: every match a sentence-search object holds or returns, from
\* process_chunk or from get_final_result, has the path of the object's current
\* file and a sentence without leading or trailing whitespace that contains the
\* query (the lowercased sentence when the search is case-insensitive).
C19_MatchContainsQuery ==
    (t_pc \in {"feed", "done"} /\ t_self.kind = "SentenceSearchStrategy") =>
        \A i \in DOMAIN t_self.matched_sentences :
            LET m == t_self.matched_sentences[i]
                text_to_search == IF t_self.case_sensitive THEN m.sentence
                                  ELSE lower(m.sentence)
            IN  /\ m.file = TFile
                /\ m.sentence = strip(m.sentence)
                /\ m.sentence # <<>>
                /\ Contains(t_self.search_query, text_to_search)
                /\ (t_pc = "done" => i \in DOMAIN t_ret /\ t_ret[i] = m)

\* the free permits and the tasks inside the `async with` block add up to
\* concurrent_limit, and a call that has returned left every permit free
C20_PermitsAddUp ==
    /\ semaphore + Cardinality({f \in Files : task[f] \in InsideGate}) = concurrent_limit
    /\ semaphore \in 0..concurrent_limit
    /\ (outcome = "returned" => semaphore = concurrent_limit)

\* a permit is taken by the step that brings a task inside the block and given
\* back by the step that takes it out, by return or by exception, and by no
\* other step; a task's file position, strategy object, caught exception and
\* result change only in a step that task takes inside the block
C20_PermitSteps ==
    /\ \A f \in Files :
          /\ (task[f] \notin InsideGate /\ task'[f] \in InsideGate) =>
                semaphore > 0 /\ semaphore' = semaphore - 1
          /\ (task[f] \in InsideGate /\ task'[f] \notin InsideGate) =>
                /\ task'[f] \in {"done", "raised"}
                /\ semaphore' = semaphore + 1
          /\ (/\ runs' = runs
              /\ \/ pos'[f] # pos[f]
                 \/ file_strategy'[f] # file_strategy[f]
                 \/ failure'[f] # failure[f]
                 \/ task_ret'[f] # task_ret[f]) =>
                /\ task[f] \in InsideGate
                /\ task'[f] \in InsideGate
                /\ semaphore < concurrent_limit
    /\ (semaphore' # semaphore) =>
          \E f \in Files : (task[f] \in InsideGate) # (task'[f] \in InsideGate)

\* C20: the free permits plus the tasks holding one are concurrent_limit in
\* every state; a task gives its permit back when it returns, after a failed
\* open or read as after the end of the file, and when its strategy cannot be
\* built; a file is opened, read, processed and finalized only by a task that
\* holds a permit; when process_files has returned every permit is free.
C20_PermitsConserved == []C20_PermitsAddUp /\ [][C20_PermitSteps]_vars

\* under a limit of 2 a call over three files has returned with both permits
\* free, after one task read its file, one failed to open and one failed to read
C20_Witness ==
    /\ outcome = "returned"
    /\ concurrent_limit = 2
    /\ semaphore = 2
    /\ Len(all_files_list) = 3
    /\ \E f, g, h \in Files :
          /\ failure[f] = "none" /\ pos[f] = Len(FileText(f))
          /\ failure[g] = "open"
          /\ failure[h] = "read"

====
